---- MODULE Spec2Model ----
(***************************************************************************)
(* Cacheline Elias-Fano (src/src/lib.rs).                                  *)
(*                                                                         *)
(* CachelineEf packs up to L = 44 sorted 40-bit values into one 64-byte    *)
(* record; CachelineEfVec is a vector of such records.  The model keeps    *)
(* the machine widths of the source: a u64 is four little-endian 16-bit    *)
(* limbs, so that subtraction, addition, shifts and comparisons are the    *)
(* 64-bit operations of the code (wrapping in a release build, panicking   *)
(* in a build with overflow checks).                                       *)
(***************************************************************************)
EXTENDS Integers, Sequences, FiniteSets, TLC

VARIABLES vals, checks, arch, pc, chunk, vec, out, hint

vars == <<vals, checks, arch, pc, chunk, vec, out, hint>>

(***************************************************************************)
(* Program constants.                                                      *)
(***************************************************************************)
\* const L: usize = 44
L == 44

\* high_boundaries: [u64; 2] has 2 * 64 = 128 bit positions
WordBits == 64
NumWords == 2
BitmapBits == NumWords * WordBits

\* the largest span of one chunk: 256 * (128 - L)
SpanBound == 256 * (BitmapBits - L)

(***************************************************************************)
(* Bounds of the model.                                                    *)
(***************************************************************************)
\* the longest input slice
MaxLen == 46

(***************************************************************************)
(* u64 arithmetic on four 16-bit limbs, least significant first.           *)
(***************************************************************************)
LimbBase == 2^16

Pow2(n) == 2^n

\* the u64 of a small natural number (below 2^31)
U64(n) == <<n % LimbBase, (n \div LimbBase) % LimbBase, 0, 0>>

\* the natural number of a u64 known to be below 2^31
Nat32(a) == a[1] + a[2] * LimbBase

\* a < b on u64
Lt(a, b) == \E k \in 1..4 : a[k] < b[k] /\ \A j \in (k + 1)..4 : a[j] = b[j]

Leq(a, b) == ~Lt(b, a)

\* a - b on u64: the wrapped difference and whether it overflowed
Sub(a, b) ==
    LET d1 == a[1] - b[1]
        b1 == IF d1 < 0 THEN 1 ELSE 0
        d2 == a[2] - b[2] - b1
        b2 == IF d2 < 0 THEN 1 ELSE 0
        d3 == a[3] - b[3] - b2
        b3 == IF d3 < 0 THEN 1 ELSE 0
        d4 == a[4] - b[4] - b3
        b4 == IF d4 < 0 THEN 1 ELSE 0
    IN  [val |-> <<d1 + b1 * LimbBase, d2 + b2 * LimbBase,
                   d3 + b3 * LimbBase, d4 + b4 * LimbBase>>,
         overflow |-> b4 = 1]

\* a + b on u64: the wrapped sum and whether it overflowed
Add(a, b) ==
    LET s1 == a[1] + b[1]
        c1 == s1 \div LimbBase
        s2 == a[2] + b[2] + c1
        c2 == s2 \div LimbBase
        s3 == a[3] + b[3] + c2
        c3 == s3 \div LimbBase
        s4 == a[4] + b[4] + c3
        c4 == s4 \div LimbBase
    IN  [val |-> <<s1 % LimbBase, s2 % LimbBase, s3 % LimbBase, s4 % LimbBase>>,
         overflow |-> c4 = 1]

\* a >> 8
Shr8(a) ==
    <<(a[1] \div 256) + (a[2] % 256) * 256,
      (a[2] \div 256) + (a[3] % 256) * 256,
      (a[3] \div 256) + (a[4] % 256) * 256,
      a[4] \div 256>>

\* 256 * a on u64: the wrapped product and whether it overflowed
Mul256(a) ==
    [val |-> <<(a[1] % 256) * 256,
               (a[2] % 256) * 256 + (a[1] \div 256),
               (a[3] % 256) * 256 + (a[2] \div 256),
               (a[4] % 256) * 256 + (a[3] \div 256)>>,
     overflow |-> a[4] >= 256]

\* a & 0xff
Low8(a) == a[1] % 256

\* a as u32
AsU32(a) == <<a[1], a[2], 0, 0>>

\* 1u64 << 40
TwoPow40 == <<0, 0, 256, 0>>

\* u32::MAX as u64
U32Max == <<LimbBase - 1, LimbBase - 1, 0, 0>>

Zero64 == <<0, 0, 0, 0>>

(***************************************************************************)
(* Bits of a 64-bit word.                                                  *)
(***************************************************************************)
TestBit(w, b) == (w[(b \div 16) + 1] \div Pow2(b % 16)) % 2 = 1

\* w |= 1 << b
OrBit(w, b) ==
    IF TestBit(w, b) THEN w
    ELSE [w EXCEPT ![(b \div 16) + 1] = @ + Pow2(b % 16)]

RECURSIVE CountFrom(_, _)
CountFrom(w, b) ==
    IF b >= WordBits THEN 0
    ELSE (IF TestBit(w, b) THEN 1 ELSE 0) + CountFrom(w, b + 1)

\* u64::count_ones
count_ones(w) == CountFrom(w, 0)

RECURSIVE SelectFrom(_, _, _)
SelectFrom(w, k, b) ==
    IF b >= WordBits THEN WordBits
    ELSE IF TestBit(w, b)
         THEN (IF k = 0 THEN b ELSE SelectFrom(w, k - 1, b + 1))
         ELSE SelectFrom(w, k, b + 1)

\* SelectInWord::select_in_word: the position of the k-th set bit of w, defined
\* for k < count_ones(w); WordBits stands for a rank outside that contract
select_in_word(w, k) == SelectFrom(w, k, 0)

(***************************************************************************)
(* Results.                                                                *)
(***************************************************************************)
NoChunk == [high_boundaries |-> <<Zero64, Zero64>>,
            reduced_offset |-> Zero64,
            low_bits |-> [i \in 1..L |-> 0]]

Unset == [tag |-> "Unset", chunk |-> NoChunk, msg |-> ""]

Panic(m) == [tag |-> "Panic", chunk |-> NoChunk, msg |-> m]

None == [tag |-> "None", chunk |-> NoChunk, msg |-> ""]

Some(c) == [tag |-> "Some", chunk |-> c, msg |-> ""]

(***************************************************************************)
(* CachelineEf::try_new                                                    *)
(***************************************************************************)
\* variant: the bound itself counts as too large
SpanTooLarge_ge(span) == ~Lt(span, U64(SpanBound))

\* vals[l - 1] - vals[0] > 256 * (128 - L)
SpanTooLarge(span) == Lt(U64(SpanBound), span)

\* variant: the rank i is not added
BitIndex_no_i(i, hi, offset) ==
    LET d == Sub(hi, offset)
    IN  [val |-> d.val, overflow |-> d.overflow]

\* let idx = i + ((v >> 8) - offset) as usize
BitIndex(i, hi, offset) ==
    LET d == Sub(hi, offset)
        s == Add(U64(i), d.val)
    IN  [val |-> s.val, overflow |-> d.overflow \/ s.overflow]

\* variant: every bit goes to the first word
SetBoundary_word0(hb, idx) ==
    [hb EXCEPT ![1] = OrBit(@, idx % WordBits)]

\* high_boundaries[idx / 64] |= 1 << (idx % 64)
SetBoundary(hb, idx) ==
    [hb EXCEPT ![(idx \div WordBits) + 1] = OrBit(@, idx % WordBits)]

\* the loop over vals.iter().enumerate() that fills high_boundaries
RECURSIVE HighLoop(_, _, _, _, _, _)
HighLoop(v, offset, i, last, hb, oc) ==
    IF i >= Len(v) THEN [tag |-> "Ok", hb |-> hb, msg |-> ""]
    ELSE IF ~(i >= last)
         THEN [tag |-> "Panic", hb |-> hb, msg |-> "Values are not sorted!"]
    ELSE LET idx == BitIndex(i, Shr8(v[i + 1]), offset)
         IN  IF oc /\ idx.overflow
             THEN [tag |-> "Panic", hb |-> hb, msg |-> "arithmetic overflow"]
             ELSE IF ~Lt(idx.val, U64(BitmapBits))
             THEN [tag |-> "Panic", hb |-> hb, msg |-> "Value is too large!"]
             ELSE HighLoop(v, offset, i + 1, i,
                           SetBoundary(hb, Nat32(idx.val)), oc)

\* low_bits[i] = (v & 0xff) as u8, for the values given; the rest stay 0
LowBits(v) == [i \in 1..L |-> IF i <= Len(v) THEN Low8(v[i]) ELSE 0]

CachelineEf_try_new(v, oc) ==
    IF Len(v) = 0 THEN Panic("List of values must not be empty.")
    ELSE IF Len(v) > L THEN Panic("Number of values must be at most L")
    ELSE
      LET l == Len(v)
          span == Sub(v[l], v[1])
      IN  IF oc /\ span.overflow THEN Panic("arithmetic overflow")
          ELSE IF SpanTooLarge(span.val) THEN None
          ELSE IF ~Lt(v[l], TwoPow40) THEN Panic("Last value is too large!")
          ELSE
            LET offset == Shr8(v[1])
            IN  IF Lt(U32Max, offset) THEN Panic("vals[0] does not fit in 40 bits.")
                ELSE
                  LET h == HighLoop(v, offset, 0, 0, <<Zero64, Zero64>>, oc)
                  IN  IF h.tag = "Panic" THEN Panic(h.msg)
                      ELSE Some([high_boundaries |-> h.hb,
                                 reduced_offset |-> AsU32(offset),
                                 low_bits |-> LowBits(v)])

(***************************************************************************)
(* CachelineEf::index                                                      *)
(***************************************************************************)
QueryResult(op, arg, tag, val, ci, pos) ==
    [op |-> op, arg |-> arg, tag |-> tag, val |-> val, chunk_idx |-> ci, pos |-> pos]

NoQuery == QueryResult("none", 0, "Unset", Zero64, 0, 0)

\* variant: only the first word is searched
OnePos_word0(c, idx) ==
    select_in_word(c.high_boundaries[1], idx)

\* the position of the idx-th one of the 128-bit bitmap, by the word it is in
OnePos(c, idx) ==
    LET p == count_ones(c.high_boundaries[1])
    IN  IF idx < p
        THEN select_in_word(c.high_boundaries[1], idx)
        ELSE LET s == select_in_word(c.high_boundaries[2], idx - p)
             IN  IF s < WordBits THEN WordBits + s ELSE BitmapBits

\* 256 * self.reduced_offset as u64 + 256 * (one_pos - idx) as u64
\*     + self.low_bits[idx] as u64
CachelineEf_index(c, idx, oc) ==
    LET one_pos == OnePos(c, idx)
        rank_ok == one_pos < BitmapBits
        base == Mul256(c.reduced_offset)
        diff == Sub(U64(one_pos), U64(idx))
        high == Mul256(diff.val)
        s1 == Add(base.val, high.val)
        s2 == Add(s1.val, U64(c.low_bits[idx + 1]))
    IN  IF ~rank_ok THEN [tag |-> "Undef", val |-> Zero64]
        ELSE IF oc /\ (base.overflow \/ diff.overflow \/ high.overflow \/ s1.overflow)
        THEN [tag |-> "Panic", val |-> Zero64]
        ELSE IF idx >= L THEN [tag |-> "Panic", val |-> Zero64]
        ELSE IF oc /\ s2.overflow THEN [tag |-> "Panic", val |-> Zero64]
        ELSE [tag |-> "Ok", val |-> s2.val]

(***************************************************************************)
(* CachelineEfVec                                                          *)
(***************************************************************************)
Min(a, b) == IF a < b THEN a ELSE b

\* tag is what the constructor called gives; tried is what the try_new under
\* it returned, and window the window it stopped at
VecResult(tag, tried, ef, len, window, msg) ==
    [tag |-> tag, tried |-> tried, ef |-> ef, len |-> len,
     window |-> window, msg |-> msg]

NoVec == VecResult("Unset", "Unset", <<>>, 0, 0, "")

\* variant: the window ends one element early
Window_short(v, i) == SubSeq(v, i + 1, Min(i + L - 1, Len(v)))

\* &vals[i..min(i + L, vals.len())]
Window(v, i) == SubSeq(v, i + 1, Min(i + L, Len(v)))

\* for i in (0..vals.len()).step_by(L) { p.push(CachelineEf::try_new(..)?) }
RECURSIVE VecLoop(_, _, _, _)
VecLoop(v, i, p, oc) ==
    IF i >= Len(v) THEN VecResult("Some", "Some", p, Len(v), 0, "")
    ELSE LET r == CachelineEf_try_new(Window(v, i), oc)
         IN  IF r.tag = "Panic"
             THEN VecResult("Panic", "Panic", <<>>, 0, i \div L, r.msg)
             ELSE IF r.tag = "None"
             THEN VecResult("None", "None", <<>>, 0, i \div L, "")
             ELSE VecLoop(v, i + L, Append(p, r.chunk), oc)

CachelineEfVec_try_new(v, oc) == VecLoop(v, 0, <<>>, oc)

\* Self::try_new(vals).expect("Values are too sparse!")
CachelineEfVec_new(v, oc) ==
    LET r == CachelineEfVec_try_new(v, oc)
    IN  IF r.tag = "None"
        THEN VecResult("Panic", "None", <<>>, 0, r.window, "Values are too sparse!")
        ELSE r

\* variant: every index is resolved from the first chunk
ChunkOf_first(index) == 0

\* self.ef.as_ref().get_unchecked(index / L).index(index % L)
ChunkOf(index) == index \div L

PosOf(index) == index % L

CachelineEfVec_index(ef, len, index, oc) ==
    IF ~(index < len)
    THEN QueryResult("index", index, "Panic", Zero64, 0, 0)
    ELSE LET r == CachelineEf_index(ef[ChunkOf(index) + 1], PosOf(index), oc)
         IN  QueryResult("index", index, r.tag, r.val, ChunkOf(index), PosOf(index))

\* std::mem::size_of::<CachelineEf>(): repr(C), align(64), fields of
\* 2 * 8 + 4 + L bytes
ChunkAlign == 64
FieldBytes == NumWords * 8 + 4 + L
SizeOfChunk == ((FieldBytes + ChunkAlign - 1) \div ChunkAlign) * ChunkAlign

\* variant: the size is taken from len, rounded down
size_in_bytes_len(ef, len) == (len \div L) * SizeOfChunk

\* std::mem::size_of_val(self.ef.as_ref())
size_in_bytes(ef, len) == Len(ef) * SizeOfChunk

(***************************************************************************)
(* prefetch_index: s.as_ptr().add(index), then _mm_prefetch on x86 and     *)
(* x86_64 and nothing elsewhere.  The pointer is formed without a bounds   *)
(* check; ptr::add is defined up to one past the end of the slice and      *)
(* undefined beyond it, where a build may issue the hint at the computed   *)
(* address or drop it.  The targets modelled are x86_64, which the x86     *)
(* branch repeats, and aarch64, whose empty branch every other target      *)
(* repeats.                                                                *)
(***************************************************************************)
Archs == {"x86_64", "aarch64"}

HintResult(formed, issued) == [formed |-> formed, issued |-> issued]

NoHint == HintResult(-1, FALSE)

prefetch_index(n, index, target) ==
    IF target \in {"x86_64", "x86"}
    THEN IF index <= n
         THEN {HintResult(index, TRUE)}
         ELSE {HintResult(index, TRUE), HintResult(index, FALSE)}
    ELSE {HintResult(index, FALSE)}

(***************************************************************************)
(* Input slices.  A slice is a base value plus, for its i-th element, the  *)
(* offset step * i; the last element is moved up by tail, and one element  *)
(* may be replaced by base + spike or base - dip, which makes the slice    *)
(* unsorted.  Additions wrap at 2^64.                                      *)
(***************************************************************************)
\* the largest chunk index prefetch is asked for
MaxChunkIdx == 2

Shape(step, tail, at, up, down) ==
    [step |-> step, tail |-> tail, at |-> at, up |-> up, down |-> down]

Steps(step) == Shape(step, 0, -1, 0, 0)

LastUp(step, tail) == Shape(step, tail, -1, 0, 0)

Top == Sub(TwoPow40, U64(SpanBound + 1)).val

Cases ==
    { \* sorted, below 2^40
      <<Zero64, Steps(256)>>,               \* 0, 256, 512, ...
      <<U64(1000000), Steps(100)>>,
      <<U64(255), LastUp(0, SpanBound)>>,     \* equal values, the last at the largest span
      <<U64(255), LastUp(0, SpanBound + 1)>>, \* the last one past the largest span
      <<Zero64, Steps(501)>>,               \* 44 values span 21543
      <<Top, Steps(500)>>,                  \* 44 values span 21500, up to 2^40 - 5
      \* sorted, reaching 2^40
      <<Top, LastUp(0, SpanBound + 1)>>,      \* the last value is 2^40
      <<Sub(TwoPow40, U64(100)).val, Steps(100)>>,
      \* not sorted
      <<Zero64, Shape(1, 0, 1, 5, 0)>>,     \* 0, 5, 2, 3, ...
      <<Zero64, Shape(256, 0, 1, 768, 0)>>, \* 0, 768, 512, 768, ...
      <<Zero64, Shape(1, 0, 1, 40000, 0)>>, \* 0, 40000, 2, 3, ...
      <<U64(1000000), Shape(1, 0, 1, 0, 300)>>, \* b, b - 300, b + 2, ...
      <<Sub(Zero64, U64(1)).val, Steps(1)>> }   \* 2^64 - 1, 0, 1, ...

Element(base, s, n, i) ==
    IF i = s.at /\ i < n - 1
    THEN IF s.down > 0 THEN Sub(base, U64(s.down)).val
                       ELSE Add(base, U64(s.up)).val
    ELSE Add(base, U64(s.step * i + (IF i = n - 1 THEN s.tail ELSE 0))).val

Slice(base, s, n) == [i \in 1..n |-> Element(base, s, n, i - 1)]

Inputs == { Slice(c[1], c[2], n) : c \in Cases, n \in 0..MaxLen }

(***************************************************************************)
(* The state machine: an input slice and a build are fixed, a constructor  *)
(* is called on the slice, and the container built is queried.             *)
(***************************************************************************)
Init ==
    /\ vals \in Inputs
    /\ checks \in BOOLEAN
    /\ arch \in Archs
    /\ pc = "start"
    /\ chunk = Unset
    /\ vec = NoVec
    /\ out = NoQuery
    /\ hint = NoHint

After(tag, built) ==
    IF tag = "Some" THEN built ELSE IF tag = "None" THEN "none" ELSE "aborted"

ChunkTryNew ==
    /\ pc = "start"
    /\ chunk' = CachelineEf_try_new(vals, checks)
    /\ pc' = After(chunk'.tag, "chunk")
    /\ UNCHANGED <<vals, checks, arch, vec, out, hint>>

ChunkIndex(idx) ==
    /\ pc = "chunk"
    /\ LET r == CachelineEf_index(chunk.chunk, idx, checks)
       IN  out' = QueryResult("index", idx, r.tag, r.val, 0, idx)
    /\ pc' = "queried"
    /\ UNCHANGED <<vals, checks, arch, chunk, vec, hint>>

VecTryNew ==
    /\ pc = "start"
    /\ vec' = CachelineEfVec_try_new(vals, checks)
    /\ pc' = After(vec'.tag, "vec")
    /\ UNCHANGED <<vals, checks, arch, chunk, out, hint>>

VecNew ==
    /\ pc = "start"
    /\ vec' = CachelineEfVec_new(vals, checks)
    /\ pc' = After(vec'.tag, "vec")
    /\ UNCHANGED <<vals, checks, arch, chunk, out, hint>>

VecIndex(index) ==
    /\ pc = "vec"
    /\ out' = CachelineEfVec_index(vec.ef, vec.len, index, checks)
    /\ pc' = "queried"
    /\ UNCHANGED <<vals, checks, arch, chunk, vec, hint>>

VecLen ==
    /\ pc = "vec"
    /\ out' = QueryResult("len", 0, "Ok", U64(vec.len), 0, 0)
    /\ pc' = "queried"
    /\ UNCHANGED <<vals, checks, arch, chunk, vec, hint>>

VecSizeInBytes ==
    /\ pc = "vec"
    /\ out' = QueryResult("size_in_bytes", 0, "Ok",
                          U64(size_in_bytes(vec.ef, vec.len)), 0, 0)
    /\ pc' = "queried"
    /\ UNCHANGED <<vals, checks, arch, chunk, vec, hint>>

\* prefetch_index(self.ef.as_ref(), index / L)
VecPrefetch(index) ==
    /\ pc = "vec"
    /\ hint' \in prefetch_index(Len(vec.ef), index \div L, arch)
    /\ UNCHANGED <<vals, checks, arch, pc, chunk, vec, out>>

\* the indices the queries are made at
ChunkQueries == {0, 1, L \div 2, L - 2, L - 1}

VecQueries == {0, L - 1, L, MaxLen - 1, MaxLen}

Next ==
    \/ ChunkTryNew
    \/ \E idx \in ChunkQueries : ChunkIndex(idx)
    \/ VecTryNew
    \/ VecNew
    \/ \E index \in VecQueries : VecIndex(index)
    \/ VecLen
    \/ VecSizeInBytes
    \/ \E k \in 0..MaxChunkIdx : VecPrefetch(k * L)

Spec == Init /\ [][Next]_vars

(***************************************************************************)
(* Vocabulary of the properties, stated on the input values themselves.    *)
(***************************************************************************)
Sorted(v) == \A i \in 1..(Len(v) - 1) : Leq(v[i], v[i + 1])

Below2Pow40(x) == Lt(x, TwoPow40)

AllBelow2Pow40(v) == \A i \in 1..Len(v) : Below2Pow40(v[i])

\* last - first of a sorted slice is at most 21504
SpanFits(v) == Leq(Sub(v[Len(v)], v[1]).val, U64(21504))

CeilDiv(n, d) == (n + d - 1) \div d

\* the partition window j of v: the indices [44j, min(44(j + 1), n))
Part(v, j) == SubSeq(v, 44 * j + 1, Min(44 * (j + 1), Len(v)))

Parts(v) == 0..(CeilDiv(Len(v), 44) - 1)

Offending(v) == {j \in Parts(v) : ~SpanFits(Part(v, j))}

Least(S) == CHOOSE x \in S : \A y \in S : x <= y

FitsNat32(a) == a[3] = 0 /\ a[4] = 0 /\ a[2] < 2^15

\* p_i = i + (v[i] >> 8) - (v[0] >> 8), for the i-th value (from 0) of a sorted slice
HighPos(v, i) ==
    LET d == Sub(Shr8(v[i + 1]), Shr8(v[1])).val
    IN  IF FitsNat32(d) THEN i + Nat32(d) ELSE 2^30

\* the positions of the set bits of the 128-bit bitmap
SetBits(hb) ==
    {b \in 0..(BitmapBits - 1) : TestBit(hb[(b \div WordBits) + 1], b % WordBits)}

ChunkCalled == chunk.tag # "Unset"

VecCalled == vec.tag # "Unset"

ChunkInput(v) == Len(v) >= 1 /\ Len(v) <= 44 /\ Sorted(v)

VecInputFits(v) ==
    /\ Len(v) >= 1
    /\ Sorted(v)
    /\ AllBelow2Pow40(v)
    /\ Offending(v) = {}

IndexGives(r, v, i) ==
    /\ r.tag = "Ok"
    /\ r.val = v[i + 1]
    /\ r.chunk_idx = i \div 44
    /\ r.pos = i % 44

(***************************************************************************)
(* C1.  Vector round-trip: for a non-decreasing input of length n >= 1     *)
(* with all values below 2^40 and every partition window of span at most   *)
(* 21504, the constructor succeeds and index(i) = v[i] for every i < n,    *)
(* resolved from chunk i / 44 at position i % 44.                          *)
(***************************************************************************)
C1_VecRoundTrip ==
    /\ VecCalled /\ vec.tag # "Some" => ~VecInputFits(vals)
    /\ pc = "vec" /\ hint = NoHint /\ VecInputFits(vals) =>
          \A i \in 0..(Len(vals) - 1) :
              IndexGives(CachelineEfVec_index(vec.ef, vec.len, i, checks), vals, i)
    /\ /\ VecCalled /\ pc = "queried" /\ out.op = "index" /\ out.arg < Len(vals)
       /\ VecInputFits(vals)
       => IndexGives(out, vals, out.arg)

C1_Witness ==
    /\ VecCalled
    /\ VecInputFits(vals)
    /\ pc = "queried"
    /\ out.op = "index"
    /\ out.arg >= 44
    /\ out.tag = "Ok"
    /\ out.val = vals[out.arg + 1]
    /\ out.val # Zero64

ChunkInputFits(v) ==
    /\ ChunkInput(v)
    /\ Below2Pow40(v[Len(v)])
    /\ SpanFits(v)

(***************************************************************************)
(* C2.  Chunk round-trip: for a non-decreasing input of length k in 1..44  *)
(* with v[k-1] < 2^40 and v[k-1] - v[0] <= 21504, CachelineEf::try_new     *)
(* returns a chunk (neither None nor a panic) and index(i) = v[i] for      *)
(* every i < k, also for set bits in the second word of high_boundaries.   *)
(***************************************************************************)
C2_ChunkRoundTrip ==
    /\ ChunkCalled /\ chunk.tag # "Some" => ~ChunkInputFits(vals)
    /\ pc = "chunk" /\ ChunkInputFits(vals) =>
          \A i \in 0..(Len(vals) - 1) :
              LET r == CachelineEf_index(chunk.chunk, i, checks)
              IN  r.tag = "Ok" /\ r.val = vals[i + 1]
    /\ /\ ChunkCalled /\ pc = "queried" /\ out.arg < Len(vals)
       /\ ChunkInputFits(vals)
       => out.tag = "Ok" /\ out.val = vals[out.arg + 1]

C2_Witness ==
    /\ ChunkCalled
    /\ ChunkInputFits(vals)
    /\ pc = "queried"
    /\ out.arg < Len(vals)
    /\ out.tag = "Ok"
    /\ out.val = vals[out.arg + 1]
    /\ OnePos(chunk.chunk, out.arg) >= 64

C4_UnsortedAborts ==
    ChunkCalled /\ pc # "queried" /\ Len(vals) >= 1 /\ Len(vals) <= 44 /\ ~Sorted(vals) =>
        chunk.tag = "Panic"

(***************************************************************************)
(* C5.  Domain violations are fatal: for a non-empty non-decreasing chunk  *)
(* input of length at most 44 whose last value is 2^40 or more,            *)
(* CachelineEf::try_new panics whatever the span is.                       *)
(***************************************************************************)
C5_DomainAborts ==
    ChunkCalled /\ pc # "queried" /\ ChunkInput(vals) /\ ~Below2Pow40(vals[Len(vals)]) =>
        chunk.tag = "Panic"

(***************************************************************************)
(* C6.  Bitmap invariant: a chunk built from a non-decreasing input of     *)
(* count k has exactly k set bits in high_boundaries, the i-th of them at  *)
(* p_i = i + (v[i] >> 8) - (v[0] >> 8), and the p_i strictly increase.     *)
(***************************************************************************)
C6_Bitmap ==
    pc = "chunk" /\ chunk.tag = "Some" /\ Sorted(vals) =>
        LET hb == chunk.chunk.high_boundaries
            bits == SetBits(hb)
            k == Len(vals)
        IN  /\ count_ones(hb[1]) + count_ones(hb[2]) = k
            /\ Cardinality(bits) = k
            /\ \A i \in 0..(k - 1) :
                  /\ HighPos(vals, i) \in bits
                  /\ Cardinality({b \in bits : b < HighPos(vals, i)}) = i
            /\ \A i \in 0..(k - 2) : HighPos(vals, i) < HighPos(vals, i + 1)

C6_Witness ==
    /\ pc = "chunk"
    /\ chunk.tag = "Some"
    /\ Sorted(vals)
    /\ Len(vals) = 44
    /\ vals[1] = vals[2]
    /\ TestBit(chunk.chunk.high_boundaries[2], 63)

(***************************************************************************)
(* C7.  Size accounting: a container built from n values holds             *)
(* ceil(n / 44) chunks, size_in_bytes() is 64 * ceil(n / 44) and len()     *)
(* is n, also for n = 0 and n not a multiple of 44.                        *)
(***************************************************************************)
C7_Sizes ==
    vec.tag = "Some" =>
        LET n == Len(vals)
        IN  /\ Len(vec.ef) = CeilDiv(n, 44)
            /\ vec.len = n
            /\ pc = "queried" /\ out.op = "size_in_bytes" =>
                  out.val = U64(64 * CeilDiv(n, 44))
            /\ pc = "queried" /\ out.op = "len" => out.val = U64(n)

C7_Witness ==
    /\ vec.tag = "Some"
    /\ Len(vals) = 45
    /\ pc = "queried"
    /\ out.op = "size_in_bytes"
    /\ out.val = U64(128)

AllPosFit(v) == \A i \in 0..(Len(v) - 1) : HighPos(v, i) >= 0 /\ HighPos(v, i) < 128

(***************************************************************************)
(* C8.  As claimed: for a non-decreasing chunk input of count 1..44 with   *)
(* all values below 2^40, the span is at most 21504 if and only if every   *)
(* p_i lies in [0, 128), and try_new returns None exactly when some        *)
(* p_i >= 128.                                                             *)
(***************************************************************************)
C8_SpanIffPositions ==
    ChunkCalled /\ pc # "queried" /\ ChunkInput(vals) /\ AllBelow2Pow40(vals) =>
        /\ SpanFits(vals) <=> AllPosFit(vals)
        /\ chunk.tag = "None" <=> ~AllPosFit(vals)

(***************************************************************************)
(* C8, amended.  The span bound implies the position bound, not the        *)
(* converse: for such an input, a span of at most 21504 puts every p_i in  *)
(* [0, 128), and try_new returns None exactly when the span exceeds 21504, *)
(* which is the case whenever some p_i >= 128.                             *)
(***************************************************************************)
C8_SpanImpliesPositions ==
    ChunkCalled /\ pc # "queried" /\ ChunkInput(vals) /\ AllBelow2Pow40(vals) =>
        /\ SpanFits(vals) => AllPosFit(vals)
        /\ chunk.tag = "None" <=> ~SpanFits(vals)
        /\ ~AllPosFit(vals) => chunk.tag = "None"

C8_Witness ==
    /\ ChunkCalled
    /\ ChunkInput(vals)
    /\ AllBelow2Pow40(vals)
    /\ chunk.tag = "None"
    /\ AllPosFit(vals)

(***************************************************************************)
(* C9.  Prefetch stays inside the chunk array: a hint is issued only for   *)
(* a chunk index below the number of chunks, and a later index(j) gives    *)
(* what the container gives.                                               *)
(***************************************************************************)
C9_PrefetchInBounds ==
    /\ hint.issued => hint.formed < Len(vec.ef)
    /\ hint # NoHint /\ pc = "queried" /\ out.op = "index" =>
          out = CachelineEfVec_index(vec.ef, vec.len, out.arg, checks)

IsHighBitSteps(v) == Len(v) = 44 /\ \A i \in 1..44 : v[i] = U64(256 * (i - 1))

\* 0x5555
Fives == 5 * 16^3 + 5 * 16^2 + 5 * 16 + 5

HighBitStepsLayout(c, word1) ==
    /\ c.reduced_offset = Zero64
    /\ \A i \in 1..44 : c.low_bits[i] = 0
    /\ SetBits(c.high_boundaries) = {2 * i : i \in 0..43}
    /\ c.high_boundaries[1] = <<Fives, Fives, Fives, Fives>>
    /\ c.high_boundaries[2] = word1

HighBitStepsRead ==
    /\ pc = "chunk" =>
          \A i \in 0..43 :
              CachelineEf_index(chunk.chunk, i, checks) = [tag |-> "Ok", val |-> U64(256 * i)]
    /\ pc = "queried" => out.tag = "Ok" /\ out.val = U64(256 * out.arg)

(***************************************************************************)
(* C10.  As claimed: for v[i] = 256 * i, i in [0, 44), the chunk has       *)
(* reduced_offset 0, all low_bits 0, set bits at 2i, the words             *)
(* 0x5555555555555555 and 0x0000000055555555, and index(i) = 256 * i.      *)
(***************************************************************************)
C10_HighBitSteps_AsClaimed ==
    ChunkCalled /\ IsHighBitSteps(vals) =>
        /\ chunk.tag = "Some"
        /\ HighBitStepsLayout(chunk.chunk, <<Fives, Fives, 0, 0>>)
        /\ HighBitStepsRead

(***************************************************************************)
(* C10, amended.  The same, with high_boundaries[1] = 0x0000000000555555:  *)
(* the twelve values 32..43 set the bits 64, 66, ..., 86.                  *)
(***************************************************************************)
C10_HighBitSteps ==
    ChunkCalled /\ IsHighBitSteps(vals) =>
        /\ chunk.tag = "Some"
        /\ HighBitStepsLayout(chunk.chunk, <<Fives, 85, 0, 0>>)
        /\ HighBitStepsRead

C10_Witness ==
    /\ IsHighBitSteps(vals)
    /\ chunk.tag = "Some"
    /\ pc = "queried"
    /\ out.arg = 43
    /\ out.val = U64(256 * 43)

====
